---------------------------- MODULE Spec2Model ----------------------------
(***************************************************************************)
(* Model of src/boulder_downloader_clean.py: one run of                   *)
(* BoulderPortalDownloader.download_all_pdfs, with the per-item            *)
(* download_pdf_from_result and the authentication engine                  *)
(* (ensure_authenticated / _auth_loop) it calls.  The portal (what each    *)
(* DOM execution context shows, whether a browser call raises) is the      *)
(* environment and is chosen nondeterministically.                         *)
(***************************************************************************)
EXTENDS Integers, Sequences, FiniteSets, TLC

\* ------------------------------------------------------------------ bounds
MaxRows == 2        \* rows 'tr:has(td)' on the results page
MaxLimit == 2       \* largest limit tried
MaxFrames == 1      \* nested frames of the page besides the main frame
MaxPopups == 1      \* other pages of the browser context (popups)
MaxRenders == 1     \* times the portal re-renders its widgets during one item

MaxLen == 3         \* longest string handed to a file-name helper
MaxJobs == 2        \* analysis jobs submitted to the API

\* --------------------------------------------------------- program constants
MaxAttempts == 6    \* for attempt in range(6)

FilenameCap == 200  \* if len(filename) > 200: filename = filename[:200]
SlugCap == 50       \* return slug[:50]

\* ------------------------------------------------------ execution contexts
Main == <<"main", 0>>
NoCtx == <<"none", 0>>
Frames == {<<"frame", k>> : k \in 1..MaxFrames}
Popups == {<<"popup", k>> : k \in 1..MaxPopups}
Contexts == {Main} \cup Frames \cup Popups
CtxOrNone == Contexts \cup {NoCtx}

\* A limit of None is the record with set = FALSE.
NoLimit == [set |-> FALSE, val |-> 0]
Limits == {NoLimit} \cup {[set |-> TRUE, val |-> v] : v \in 0..MaxLimit}

VARIABLES
    pc,           \* position of the run (the await it is suspended at)
    limit,        \* self.limit
    enumerated,   \* what get_search_results returned: the 'index' of each entry
    results,      \* the list `results` of download_all_pdfs (after the limit)
    pos,          \* 1-based position of the loop `for i, result in enumerate(results, 1)`
    successful_downloads,
    downloaded_files,   \* the 'index' of each downloaded file name, in order
    ret,          \* what download_all_pdfs returned / how it ended
    browser,      \* the local `browser` of download_all_pdfs is not None
    browserOpen,  \* a launched browser process exists and is not closed
    loc,          \* what the page shows: "blank", "results", "detail", "lost"
    rowsStale,    \* the results page the 'row_element' handles of `results` were
                  \* obtained from has been left or loaded anew since
    lastNav,      \* the last page operation that can change what the page shows
    prevFailed,   \* the previous item of the loop returned None
    captureFailIdx, \* 'index' of the item whose download capture raised (0: none yet)
    otherFails,   \* an item started on the results page failed in another way,
                  \* or a second capture raised
    fresh,        \* the current item's row was activated with the results page showing
    saved,        \* the 'index' of every artifact saved into download_dir
    sessionWrites,\* calls of context.storage_state(path=...) so far
    sessionSaved, \* one of them wrote boulder_storage_state.json
    \* ---- the portal's detail view (environment)
    ctxs,         \* the contexts the portal of this run renders its widgets in
    dlAt,         \* context showing a button named /download/i, or NoCtx
    dlFree,       \* that button is on the main page and named "Download (Free)"
    formAt,       \* context showing a login form, or NoCtx
    formKind,     \* "pw": it has a password input; "btn": only a Sign In/Login button
    pendingLogin, \* credentials were submitted and the portal has not answered yet
    renders,      \* re-renders of the portal during this item
    \* ---- ensure_authenticated (one invocation)
    attempt,      \* `attempt` of _auth_loop
    fills,        \* calls of _fill_login_form in this invocation
    fillTarget,   \* the page_or_frame of the last _fill_login_form call, or NoCtx
    lastCheckSaw, \* the last _is_authenticated scan had the affordance before it,
                  \* and no _fill_login_form call was made since
    authRet,      \* how ensure_authenticated ended: kind "none" (not yet), "returned"
                  \* with the tuple (auth, jli) or "raised"; "used" once the
                  \* caller has moved on
    login,        \* the first login of the run: the item (at) during whose
                  \* ensure_authenticated call the portal accepted credentials
                  \* while it showed no download affordance, how
                  \* that call ended (state), and whether a later item's call made a
                  \* credential submission (relogin)
    \* ---- the file-name helpers (sanitize_filename, create_query_slug)
    text,         \* the string handed to the helper
    out,          \* what the helper returned
    op,           \* the helper that was called: "none", "sanitize", "slug";
                  \* "final" once a file name was built from the slug
    \* ---- the job API (app.py)
    jobs          \* the dict `jobs`: the job records in creation order, each
                  \* with `stage`, the await its task is suspended at,
                  \* `session`, whether its browser context was created from
                  \* the stored session file, `count`, the count its
                  \* downloader run returned (0 before), and `results`,
                  \* whether "results" is set (not None)

vars == <<pc, limit, enumerated, results, pos, successful_downloads, downloaded_files, ret,
          browser, browserOpen, loc, lastNav, prevFailed, captureFailIdx,
          otherFails, fresh, saved, sessionWrites, sessionSaved,
          dlAt, dlFree, formAt, formKind, pendingLogin, renders,
          attempt, fills, fillTarget, lastCheckSaw, authRet, ctxs, login,
          text, out, op, rowsStale, jobs>>

nameVars == <<text, out, op>>
frameVars == <<limit, enumerated, results, pos, ret, browser, browserOpen, ctxs, nameVars,
               jobs>>
tallyVars == <<successful_downloads, downloaded_files>>
failVars == <<prevFailed, captureFailIdx, otherFails, fresh>>
pageVars == <<loc, lastNav, rowsStale>>
diskVars == <<saved, sessionWrites, sessionSaved>>
envVars == <<dlAt, dlFree, formAt, formKind, pendingLogin, renders>>
authVars == <<attempt, fills, fillTarget, lastCheckSaw, authRet>>

\* ------------------------------------------------------------ pure helpers
Min(a, b) == IF a < b THEN a ELSE b
Max(a, b) == IF a > b THEN a ELSE b

\* Python's results[:L] for any integer L.
PySlice(s, L) ==
    IF L >= 0 THEN SubSeq(s, 1, Min(L, Len(s)))
              ELSE SubSeq(s, 1, Max(0, Len(s) + L))

\* get_search_results: `for i, row in enumerate(result_rows, 1)` keeps the rows
\* whose text is longer than 10 characters; 'index' is the row's position i.
\* rows[i] is TRUE when row i passes `text and len(text.strip()) > 10`.
RECURSIVE KeptIndexes(_, _)
KeptIndexes(rows, i) ==
    IF i > Len(rows) THEN <<>>
    ELSE IF rows[i] THEN <<i>> \o KeptIndexes(rows, i + 1)
    ELSE KeptIndexes(rows, i + 1)

RowLists == UNION {[1..m -> BOOLEAN] : m \in 0..MaxRows}

\* `if self.limit and self.limit < total_results: results = results[:self.limit]`
ApplyLimit(res, lim) ==
    IF lim.set /\ lim.val # 0 /\ lim.val < Len(res) THEN PySlice(res, lim.val)
    ELSE res

\* ------------------------------------------------------ file-name helpers
\* Characters, one of each class the two regular expressions tell apart: a
\* letter, a blank, the underscore, the hyphen, the slash, the dot.
Chars == {"a", " ", "_", "-", "/", "."}
Strings == UNION {[1..n -> Chars] : n \in 0..MaxLen}

\* The class [<>:"/\\|?*] of sanitize_filename.
Forbidden == {"/"}
\* The class [a-zA-Z0-9\\s-] that create_query_slug keeps.
SlugKept == {"a", " ", "-"}
\* The class \\s.
Whitespace == {" "}

\* s[:n]
Truncate(s, n) == SubSeq(s, 1, Min(n, Len(s)))

\* sanitize_filename (lines 56-61): every forbidden character becomes '_',
\* then the name is cut to 200 characters.
sanitize_filename(filename) ==
    Truncate([i \in 1..Len(filename) |->
                 IF filename[i] \in Forbidden THEN "_" ELSE filename[i]],
             FilenameCap)

\* str.strip(): leading and trailing whitespace removed.
RECURSIVE StripLeft(_)
StripLeft(s) ==
    IF s # <<>> /\ Head(s) \in Whitespace THEN StripLeft(Tail(s)) ELSE s
RECURSIVE StripRight(_)
StripRight(s) ==
    IF s # <<>> /\ s[Len(s)] \in Whitespace
    THEN StripRight(SubSeq(s, 1, Len(s) - 1)) ELSE s
Strip(s) == StripRight(StripLeft(s))

\* re.sub(r'\\s+', '_', s): every maximal run of whitespace becomes one '_'.
RECURSIVE CollapseWhitespace(_)
CollapseWhitespace(s) ==
    IF s = <<>> THEN <<>>
    ELSE IF Head(s) \in Whitespace
    THEN <<"_">> \o CollapseWhitespace(StripLeft(s))
    ELSE <<Head(s)>> \o CollapseWhitespace(Tail(s))

\* create_query_slug (lines 63-67): drop every character outside
\* [a-zA-Z0-9\\s-], strip, collapse whitespace into '_', cut to 50 characters.
create_query_slug(query) ==
    Truncate(CollapseWhitespace(Strip(SelectSeq(query, LAMBDA c : c \in SlugKept))),
             SlugCap)

\* f"{index:02d}": the decimal digits of index, zero-padded to two.
RECURSIVE Digits(_)
Digits(n) == IF n < 10 THEN <<n>> ELSE Digits(n \div 10) \o <<n % 10>>
OrdinalPrefix(index) ==
    LET d == Digits(index) IN IF Len(d) < 2 THEN <<0>> \o d ELSE d

\* The characters of the decimal digits.
DigitChars == <<"0", "1", "2", "3", "4", "5", "6", "7", "8", "9">>
DigitText(ds) == [i \in 1..Len(ds) |-> DigitChars[ds[i] + 1]]

\* f"document_{index}.pdf", the name used when the download suggests none.
default_filename(index) ==
    <<"d", "o", "c", "u", "m", "e", "n", "t", "_">> \o DigitText(Digits(index))
        \o <<".", "p", "d", "f">>

\* A variant of line 395 without the ordinal.
final_filename_no_ordinal(index, query_slug, safe_filename) ==
    query_slug \o <<"_", "_">> \o safe_filename

\* Line 395: f"{index:02d}_{query_slug}__{safe_filename}".
final_filename(index, query_slug, safe_filename) ==
    DigitText(OrdinalPrefix(index)) \o <<"_">> \o query_slug \o <<"_", "_">>
        \o safe_filename

\* Lines 393-395: the name a download with the suggested name `suggested` is
\* stored under (`suggested or f"document_{index}.pdf"`, sanitized, prefixed).
stored_filename(index, query_slug, suggested) ==
    final_filename(index, query_slug,
                   sanitize_filename(IF suggested = <<>> THEN default_filename(index)
                                     ELSE suggested))

\* The dict download_all_pdfs returns.
RunResult(c, f) == [count |-> c, files |-> f]

NoAuthRet == [kind |-> "none", auth |-> FALSE, jli |-> FALSE]
AuthRaised == [kind |-> "raised", auth |-> FALSE, jli |-> FALSE]
AuthTuple(a, j) == [kind |-> "returned", auth |-> a, jli |-> j]

AuthPcs == {"auth_check", "auth_forms", "auth_login", "auth_recheck"}

\* ------------------------------------------------------------- the job API
\* The dict `jobs` before any request: empty.  The model keeps the job
\* records in the order analyze_property created them.
NoJobs == <<>>

\* No credential submission was accepted by the portal so far.
NoLogin == [at |-> 0, state |-> "none", relogin |-> FALSE]

\* ------------------------------------------------------------------- Init
BlankEnv ==
    /\ dlAt = NoCtx /\ dlFree = FALSE /\ formAt = NoCtx /\ formKind = "pw"
    /\ pendingLogin = FALSE /\ renders = 0

BlankAuth ==
    /\ attempt = 0 /\ fills = 0 /\ fillTarget = NoCtx
    /\ lastCheckSaw = FALSE /\ authRet = NoAuthRet

InitRest ==
    /\ pc = "setup"
    /\ enumerated = <<>> /\ results = <<>> /\ pos = 0
    /\ successful_downloads = 0 /\ downloaded_files = <<>>
    /\ ret = [kind |-> "none", value |-> RunResult(0, <<>>)]
    /\ browser = FALSE /\ browserOpen = FALSE
    /\ loc = "blank" /\ lastNav = "none"
    /\ prevFailed = FALSE /\ captureFailIdx = 0 /\ otherFails = FALSE
    /\ fresh = FALSE
    /\ saved = {} /\ sessionWrites = 0 /\ sessionSaved = FALSE
    /\ BlankEnv /\ BlankAuth
    /\ login = NoLogin
    /\ rowsStale = FALSE
    /\ jobs = NoJobs

\* No file-name helper was called.
NoNames ==
    /\ text = <<>> /\ out = <<>> /\ op = "none"

\* A run with any limit against a portal that renders in the main document.
Init ==
    /\ limit \in Limits
    /\ ctxs = {Main}
    /\ InitRest
    /\ NoNames

\* A run limited to two results against a portal that renders in the main
\* document.
InitRun ==
    /\ limit = [set |-> TRUE, val |-> 2]
    /\ ctxs = {Main}
    /\ InitRest
    /\ NoNames

\* A run limited to one result against a portal that renders its widgets in
\* the main document, in a frame or in a popup.
InitAuth ==
    /\ limit = [set |-> TRUE, val |-> 1]
    /\ ctxs = Contexts
    /\ InitRest
    /\ NoNames

\* ------------------------------------------------- download_all_pdfs: frame
\* `return v` inside the try: the finally clause runs before the caller sees v.
\* With `browser` still None the finally clause does nothing.
Return(v) ==
    IF browser THEN /\ ret' = [kind |-> "pending", value |-> v]
                     /\ pc' = "close"
    ELSE /\ ret' = [kind |-> "returned", value |-> v]
         /\ pc' = "done"

\* setup_browser, called at line 435.  It raises when both launches fail
\* (no browser exists) or when new_context / new_page fail (a browser was
\* launched, but the assignment of line 435 never happens).  Either way the
\* handler of line 511 returns the empty result.
setup_browser ==
    /\ pc = "setup"
    /\ UNCHANGED login
    /\ \/ /\ browser' = TRUE /\ browserOpen' = TRUE
          /\ pc' = "search" /\ UNCHANGED ret
       \/ /\ browser' = FALSE /\ browserOpen' \in BOOLEAN
          /\ ret' = [kind |-> "returned", value |-> RunResult(0, <<>>)]
          /\ pc' = "done"
    /\ UNCHANGED <<limit, ctxs, nameVars, jobs, enumerated, results, pos, tallyVars, failVars, pageVars, diskVars,
                   envVars, authVars>>

\* A variant of line 438 that ignores perform_search's result.
perform_search_ignored ==
    /\ pc = "search"
    /\ UNCHANGED <<login, rowsStale>>
    /\ lastNav' = "goto_search"
    /\ loc' \in {"results", "lost"}
    /\ pc' = "enumerate" /\ UNCHANGED ret
    /\ UNCHANGED <<limit, ctxs, nameVars, jobs, enumerated, results, pos, browser, browserOpen,
                   tallyVars, failVars, diskVars, envVars, authVars>>

\* perform_search: page.goto(results_url) and a settle wait; any exception
\* makes it return False, and the run returns the empty result.
perform_search ==
    /\ pc = "search"
    /\ UNCHANGED <<login, rowsStale>>
    /\ lastNav' = "goto_search"
    /\ \/ /\ loc' = "results" /\ pc' = "enumerate" /\ UNCHANGED ret
       \/ /\ loc' = "lost"
          /\ Return(RunResult(0, <<>>))
    /\ UNCHANGED <<limit, ctxs, nameVars, jobs, enumerated, results, pos, browser, browserOpen, tallyVars, failVars,
                   diskVars, envVars, authVars>>

\* Where the loop goes after the current item: the next result, or the code
\* after the loop.
LoopTo(p, res) == IF p <= Len(res) THEN "click" ELSE "end_save"

\* get_search_results and lines 447-465: enumerate, return early on an empty
\* list, apply the limit, enter the loop.  An exception in the enumeration
\* yields the empty list.
get_search_results ==
    /\ pc = "enumerate"
    /\ UNCHANGED login
    /\ \E rows \in RowLists, raised \in BOOLEAN :
         LET found == IF raised THEN <<>> ELSE KeptIndexes(rows, 1) IN
         IF found = <<>>
         THEN /\ Return(RunResult(0, <<>>))
              /\ UNCHANGED <<enumerated, results, pos>>
         ELSE /\ enumerated' = found
              /\ results' = ApplyLimit(found, limit)
              /\ pos' = 1
              /\ pc' = LoopTo(1, results')
              /\ UNCHANGED ret
    /\ rowsStale' = FALSE
    /\ UNCHANGED <<limit, ctxs, nameVars, jobs, browser, browserOpen, tallyVars, failVars, loc, lastNav,
                   diskVars, envVars, authVars>>

\* ------------------------------------------- download_pdf_from_result: ends
EnvBlanked ==
    /\ dlAt' = NoCtx /\ dlFree' = FALSE /\ formAt' = NoCtx /\ formKind' = "pw"
    /\ pendingLogin' = FALSE /\ renders' = 0

\* The portal renders a detail view: at most one context shows the download
\* affordance and at most one shows a login form.
EnvRendered ==
    /\ dlAt' \in ctxs \cup {NoCtx}
    /\ dlFree' \in (IF dlAt' = Main THEN BOOLEAN ELSE {FALSE})
    /\ formAt' \in ctxs \cup {NoCtx}
    /\ formKind' \in (IF formAt' = NoCtx THEN {"pw"} ELSE {"pw", "btn"})

\* download_pdf_from_result returns None (lines 356, 366, 412, 417) and the
\* loop takes its else branch (lines 476-478).  cause: "capture" (the capture
\* raised for an item started on the results page), "stale" (the row could not
\* be activated because the page was not showing the results), "other".
ItemFailed(cause) ==
    /\ prevFailed' = TRUE
    /\ captureFailIdx' = IF cause = "capture" /\ captureFailIdx = 0
                         THEN results[pos] ELSE captureFailIdx
    /\ otherFails' = (otherFails \/ cause = "other"
                        \/ (cause = "capture" /\ captureFailIdx # 0))
    /\ pc' = "pause"
    /\ UNCHANGED tallyVars

\* A variant of line 473 that puts the new name in front of the list.
ItemSucceeded_prepended ==
    /\ successful_downloads' = successful_downloads + 1
    /\ downloaded_files' = <<results[pos]>> \o downloaded_files
    /\ prevFailed' = FALSE
    /\ pc' = "pause"
    /\ UNCHANGED <<captureFailIdx, otherFails>>

\* download_pdf_from_result returns final_filename (line 408) and the loop
\* counts it (lines 471-475).
ItemSucceeded ==
    /\ successful_downloads' = successful_downloads + 1
    /\ downloaded_files' = Append(downloaded_files, results[pos])
    /\ prevFailed' = FALSE
    /\ pc' = "pause"
    /\ UNCHANGED <<captureFailIdx, otherFails>>

AuthBlanked ==
    /\ attempt' = 0 /\ fills' = 0 /\ fillTarget' = NoCtx
    /\ lastCheckSaw' = FALSE /\ authRet' = NoAuthRet

\* A variant of lines 347-356 without the '/doc/' test: whatever page the
\* click lands on, the item goes on to ensure_authenticated.
row_click_no_url_test ==
    /\ pc = "click"
    /\ UNCHANGED login
    /\ lastNav' = "row_click"
    /\ fresh' = (loc = "results")
    /\ AuthBlanked
    /\ \/ /\ loc' = loc
          /\ UNCHANGED rowsStale
          /\ ItemFailed(IF loc = "results" THEN "other" ELSE "stale")
          /\ UNCHANGED envVars
       \/ /\ loc' \in {"detail", "lost"}
          /\ rowsStale' = TRUE
          /\ EnvRendered /\ pendingLogin' = FALSE /\ renders' = 0
          /\ pc' = "auth_check"
          /\ UNCHANGED <<tallyVars, prevFailed, captureFailIdx, otherFails>>
    /\ UNCHANGED <<frameVars, diskVars>>

\* Lines 341-359: row.click(), the settle wait and the '/doc/' test.
\* The click or the wait may raise (handler of line 414); the page may end on
\* a detail view, or on a page whose URL has no '/doc/'.  A page already on a
\* detail view keeps its '/doc/' URL unless the click raises.
row_click ==
    /\ pc = "click"
    /\ UNCHANGED login
    /\ lastNav' = "row_click"
    /\ fresh' = (loc = "results")
    /\ AuthBlanked
    /\ \/ /\ loc' = loc
          /\ UNCHANGED rowsStale
          /\ ItemFailed(IF loc = "results" THEN "other" ELSE "stale")
          /\ UNCHANGED envVars
       \/ /\ loc # "detail"
          /\ loc' \in {loc, "lost"}
          /\ rowsStale' = (rowsStale \/ loc' # loc)
          /\ ItemFailed(IF loc = "results" THEN "other" ELSE "stale")
          /\ UNCHANGED envVars
       \/ /\ loc \in {"results", "detail"}
          /\ loc' = "detail"
          /\ rowsStale' = TRUE
          /\ EnvRendered /\ pendingLogin' = FALSE /\ renders' = 0
          /\ pc' = "auth_check"
          /\ UNCHANGED <<tallyVars, prevFailed, captureFailIdx, otherFails>>
    /\ UNCHANGED <<frameVars, diskVars>>

\* ------------------------------------------------------ ensure_authenticated
\* A scan probes the main page and then each frame; `bad` is the context whose
\* probe raises during the scan (NoCtx: none does).
ScanFaults == {NoCtx, Main} \cup Frames

\* What a scan of the main page and the frames can see of the affordance:
\* nothing once the main page's probe raised, and not a frame whose probe raises.
AffordanceScannable(bad) ==
    /\ dlAt \in ({Main} \cup Frames)
    /\ bad # Main
    /\ bad # dlAt

\* A variant of _is_authenticated that forgets the frames.
is_authenticated_main_only(bad) ==
    bad # Main /\ dlAt = Main

\* _is_authenticated (lines 117-138): the main page, then every frame but the
\* main frame; a frame whose probe raises is skipped, any other exception
\* gives False.  Popups are not looked at.
is_authenticated(bad) ==
    IF bad = Main THEN FALSE
    ELSE \/ dlAt = Main
         \/ \E f \in Frames : f # bad /\ dlAt = f

\* _has_login_forms (lines 140-165) when the main page's probes do not raise:
\* any of the four selectors on the main page, then in every frame; a frame
\* whose probe raises is skipped.
has_login_forms(bad) ==
    \/ formAt = Main
    \/ \E f \in Frames : f # bad /\ formAt = f

\* _handle_login (lines 167-199): the page_or_frame it hands to
\* _fill_login_form, or NoCtx when it returns False.  bad1 is the fault of its
\* _has_login_forms scan, bad2 that of its own frame and popup probes.
handle_login(bad1, bad2) ==
    IF has_login_forms(bad1) THEN Main
    ELSE IF \E f \in Frames : f # bad2 /\ formAt = f /\ formKind = "pw" THEN formAt
    ELSE IF \E q \in Popups : q # bad2 /\ formAt = q /\ formKind = "pw" THEN formAt
    ELSE NoCtx

\* The tuples ensure_authenticated returns: line 222 with line 207 (already
\* authenticated), line 232 with line 207 (logged in by this call), line 210
\* (the budget is over).
already_authenticated_flagged == AuthTuple(TRUE, TRUE)
already_authenticated == AuthTuple(TRUE, FALSE)
just_logged_in == AuthTuple(TRUE, TRUE)
timed_out == AuthTuple(FALSE, FALSE)

\* The loop goes on (no return, no exception leaves ensure_authenticated).
AuthGoes(next) ==
    /\ pc' = next
    /\ UNCHANGED <<tallyVars, prevFailed, captureFailIdx, otherFails, login>>

\* The record of the first login when an ensure_authenticated call ends with
\* r: a login the portal accepted during this call is settled (the call
\* reports authenticated, or not); a call of a later item that made a
\* _fill_login_form call is a re-login.
LoginAfter(r) ==
    IF login.state = "accepted"
    THEN [login EXCEPT !.state = IF r.kind = "returned" /\ r.auth
                                 THEN "authed" ELSE "failed"]
    ELSE IF login.state \in {"authed", "failed"} /\ pos > login.at /\ fills >= 1
    THEN [login EXCEPT !.relogin = TRUE]
    ELSE login

\* A variant of the caller that skips the session write of lines 369-376.
AuthEnds_no_session_write(r) ==
    /\ authRet' = r
    /\ login' = LoginAfter(r)
    /\ IF r.kind = "returned" /\ r.auth
       THEN /\ pc' = "find_btn"
            /\ UNCHANGED <<tallyVars, prevFailed, captureFailIdx, otherFails>>
       ELSE ItemFailed("other")

\* A variant of the caller without the test of line 363: the item goes on to
\* the download button whatever ensure_authenticated reported.
AuthEnds_no_abandon(r) ==
    /\ authRet' = r
    /\ login' = LoginAfter(r)
    /\ IF r.kind = "returned"
       THEN /\ pc' = IF r.jli THEN "save_session" ELSE "find_btn"
            /\ UNCHANGED <<tallyVars, prevFailed, captureFailIdx, otherFails>>
       ELSE ItemFailed("other")

\* ensure_authenticated ends with r; lines 362-369 of the caller follow at
\* once: not authenticated (or the exception, handler of line 414) ends the
\* item, just_logged_in leads to the session write, else the button is looked up.
AuthEnds(r) ==
    /\ authRet' = r
    /\ login' = LoginAfter(r)
    /\ IF r.kind = "returned" /\ r.auth
       THEN /\ pc' = IF r.jli THEN "save_session" ELSE "find_btn"
            /\ UNCHANGED <<tallyVars, prevFailed, captureFailIdx, otherFails>>
       ELSE ItemFailed("other")

\* A variant of the loop's end without the raise of line 237: _auth_loop falls
\* off its end and line 207 returns True with its (None) result.
NextAttempt_no_raise ==
    /\ attempt' = attempt + 1
    /\ IF attempt + 1 < MaxAttempts
       THEN AuthGoes("auth_check") /\ UNCHANGED authRet
       ELSE AuthEnds(AuthTuple(TRUE, FALSE))

\* A variant of the loop with one attempt more than range(6).
NextAttempt_one_more ==
    /\ attempt' = attempt + 1
    /\ IF attempt + 1 < MaxAttempts + 1
       THEN AuthGoes("auth_check") /\ UNCHANGED authRet
       ELSE AuthEnds(timed_out)

\* Lines 234-237: the pause, then the next attempt, or TimeoutError after the
\* last one (caught at line 208: return False, False).
NextAttempt ==
    /\ attempt' = attempt + 1
    /\ IF attempt + 1 < MaxAttempts
       THEN AuthGoes("auth_check") /\ UNCHANGED authRet
       ELSE AuthEnds(timed_out)

\* Line 220: the first check of an iteration.
auth_check ==
    /\ pc = "auth_check"
    /\ \E bad \in ScanFaults :
         /\ lastCheckSaw' = AffordanceScannable(bad)
         /\ IF is_authenticated(bad)
            THEN AuthEnds(already_authenticated)
            ELSE AuthGoes("auth_forms") /\ UNCHANGED authRet
    /\ UNCHANGED <<frameVars, pageVars, diskVars, fresh, envVars, attempt, fills,
                   fillTarget>>

\* Line 225: _has_login_forms.  The main page's probes are not guarded: when
\* one raises, the exception leaves ensure_authenticated.
auth_forms ==
    /\ pc = "auth_forms"
    /\ \E bad \in ScanFaults :
         IF bad = Main
         THEN AuthEnds(AuthRaised) /\ UNCHANGED attempt
         ELSE IF has_login_forms(bad)
         THEN AuthGoes("auth_login") /\ UNCHANGED <<authRet, attempt>>
         ELSE NextAttempt
    /\ UNCHANGED <<frameVars, pageVars, diskVars, fresh, envVars, fills,
                   fillTarget, lastCheckSaw>>

\* _fill_login_form (lines 239-287) on page_or_frame `target`: it swallows
\* every exception.  The credentials reach the portal only when `target` is
\* the context holding a password input.
fill_login_form(target) ==
    /\ fills' = fills + 1
    /\ fillTarget' = target
    /\ lastCheckSaw' = FALSE
    /\ pendingLogin' = (pendingLogin \/ (target = formAt /\ formKind = "pw"))

\* Line 227: _handle_login, with the _fill_login_form it calls.
auth_login ==
    /\ pc = "auth_login"
    /\ \E bad1 \in ScanFaults, bad2 \in {NoCtx} \cup Frames \cup Popups :
         IF bad1 = Main
         THEN /\ AuthEnds(AuthRaised)
              /\ UNCHANGED <<attempt, fills, fillTarget, lastCheckSaw, pendingLogin>>
         ELSE LET target == handle_login(bad1, bad2) IN
              IF target = NoCtx
              THEN /\ NextAttempt
                   /\ UNCHANGED <<fills, fillTarget, lastCheckSaw, pendingLogin>>
              ELSE /\ fill_login_form(target)
                   /\ AuthGoes("auth_recheck")
                   /\ UNCHANGED <<authRet, attempt>>
    /\ UNCHANGED <<frameVars, pageVars, diskVars, fresh, dlAt, dlFree, formAt,
                   formKind, renders>>

\* Lines 229-232: the settle sleep and the second check.
auth_recheck ==
    /\ pc = "auth_recheck"
    /\ \E bad \in ScanFaults :
         /\ lastCheckSaw' = AffordanceScannable(bad)
         /\ IF is_authenticated(bad)
            THEN AuthEnds(just_logged_in) /\ UNCHANGED attempt
            ELSE NextAttempt
    /\ UNCHANGED <<frameVars, pageVars, diskVars, fresh, envVars, fills, fillTarget>>

\* A variant of lines 208-210 that reports authenticated when the budget is
\* over.
auth_timeout_authenticated ==
    /\ pc \in AuthPcs
    /\ AuthEnds(already_authenticated)
    /\ UNCHANGED <<frameVars, pageVars, diskVars, fresh, envVars, attempt, fills,
                   fillTarget, lastCheckSaw>>

\* Lines 203-210: asyncio.wait_for cancels the loop at whatever await it is
\* suspended in, and ensure_authenticated returns (False, False).
auth_timeout ==
    /\ pc \in AuthPcs
    /\ AuthEnds(timed_out)
    /\ UNCHANGED <<frameVars, pageVars, diskVars, fresh, envVars, attempt, fills,
                   fillTarget, lastCheckSaw>>

\* ------------------------------- download_pdf_from_result: after the login
\* context.storage_state(path=STORAGE_STATE_PATH): lines 372 and 502.  A
\* failure is logged and nothing else.
storage_state ==
    /\ sessionWrites' = sessionWrites + 1
    /\ sessionSaved' \in {sessionSaved, TRUE}

\* The locals of the ended ensure_authenticated call are gone; its result stays.
AuthUsed ==
    /\ attempt' = 0 /\ fills' = 0 /\ fillTarget' = NoCtx /\ lastCheckSaw' = FALSE
    /\ authRet' = [authRet EXCEPT !.kind = "used"]

\* A variant of lines 369-376 without the try/except: a failed write ends the
\* item through the handler of line 414.
save_session_fatal ==
    /\ pc = "save_session"
    /\ UNCHANGED login
    /\ storage_state
    /\ AuthUsed
    /\ IF sessionSaved'
       THEN pc' = "find_btn" /\ UNCHANGED <<tallyVars, failVars>>
       ELSE ItemFailed("other") /\ UNCHANGED fresh
    /\ UNCHANGED <<frameVars, pageVars, saved, envVars>>

\* Lines 369-376: the session write after a login of this call.
save_session ==
    /\ pc = "save_session"
    /\ UNCHANGED login
    /\ storage_state
    /\ pc' = "find_btn"
    /\ AuthUsed
    /\ UNCHANGED <<frameVars, tallyVars, failVars, pageVars, saved, envVars>>

\* Lines 379-381 and 409-412: the "Download (Free)" button of the main page.
\* is_visible may raise (handler of line 414).
find_button ==
    /\ pc = "find_btn"
    /\ UNCHANGED login
    /\ \/ /\ dlAt = Main /\ dlFree
          /\ pc' = "capture"
          /\ UNCHANGED <<tallyVars, prevFailed, captureFailIdx, otherFails>>
       \/ /\ ~(dlAt = Main /\ dlFree)
          /\ ItemFailed("other")
       \/ ItemFailed("other")
    /\ AuthUsed
    /\ EnvBlanked
    /\ UNCHANGED <<frameVars, fresh, pageVars, diskVars>>

\* Lines 386-392, the download capture, in its three steps; any of them may
\* raise (handler of line 414).
\* A variant of line 386-387 that clicks the button and only then registers
\* the capture.
expect_download_late ==
    /\ pc = "capture"
    /\ UNCHANGED login
    /\ lastNav' = "download_click"
    /\ \/ /\ pc' = "await_dl"
          /\ UNCHANGED <<tallyVars, prevFailed, captureFailIdx, otherFails>>
       \/ ItemFailed(IF fresh THEN "capture" ELSE "other")
    /\ UNCHANGED <<frameVars, fresh, loc, rowsStale, diskVars, envVars, authVars>>

\* Line 386: `async with page.expect_download(timeout=30000)` registers the
\* pending-download capture.
expect_download ==
    /\ pc = "capture"
    /\ UNCHANGED login
    /\ \/ /\ pc' = "click_btn"
          /\ UNCHANGED <<tallyVars, prevFailed, captureFailIdx, otherFails>>
       \/ ItemFailed(IF fresh THEN "capture" ELSE "other")
    /\ UNCHANGED <<frameVars, fresh, pageVars, diskVars, envVars, authVars>>

\* Line 387: download_btn.click(), inside the `async with`.
download_click ==
    /\ pc = "click_btn"
    /\ UNCHANGED login
    /\ lastNav' = "download_click"
    /\ \/ /\ pc' = "await_dl"
          /\ UNCHANGED <<tallyVars, prevFailed, captureFailIdx, otherFails>>
       \/ ItemFailed(IF fresh THEN "capture" ELSE "other")
    /\ UNCHANGED <<frameVars, fresh, loc, rowsStale, diskVars, envVars, authVars>>

\* Line 392: `download = await download_info.value`; it raises when no
\* download started within the timeout.
download_value ==
    /\ pc = "await_dl"
    /\ UNCHANGED login
    /\ \/ /\ pc' = "save_as"
          /\ UNCHANGED <<tallyVars, prevFailed, captureFailIdx, otherFails>>
       \/ ItemFailed(IF fresh THEN "capture" ELSE "other")
    /\ UNCHANGED <<frameVars, fresh, pageVars, diskVars, envVars, authVars>>

\* Lines 393-399: the file name is built and download.save_as writes the file.
save_as ==
    /\ pc = "save_as"
    /\ UNCHANGED login
    /\ \/ /\ saved' = saved \cup {results[pos]}
          /\ pc' = "goto_back"
          /\ UNCHANGED <<tallyVars, prevFailed, captureFailIdx, otherFails>>
       \/ /\ ItemFailed("other")
          /\ UNCHANGED saved
    /\ UNCHANGED <<frameVars, fresh, pageVars, sessionWrites, sessionSaved,
                   envVars, authVars>>

\* A variant of lines 404-405 that returns with the browser's history
\* (page.go_back()) instead of loading results_url.
goto_back_history ==
    /\ pc = "goto_back"
    /\ UNCHANGED login
    /\ lastNav' = "go_back"
    /\ rowsStale' = TRUE
    /\ \/ /\ loc' = "results"
          /\ ItemSucceeded
          /\ UNCHANGED fresh
       \/ /\ loc' \in {"results", "lost"}
          /\ ItemFailed("other")
          /\ UNCHANGED fresh
    /\ UNCHANGED <<frameVars, diskVars, envVars, authVars>>

\* Lines 401-408: page.goto(results_url) and the wait; then the file name is
\* returned.  When the goto or the wait raises the item returns None (line 417).
goto_back ==
    /\ pc = "goto_back"
    /\ UNCHANGED login
    /\ lastNav' = "goto_results"
    /\ rowsStale' = TRUE
    /\ \/ /\ loc' = "results"
          /\ ItemSucceeded
          /\ UNCHANGED fresh
       \/ /\ loc' \in {"results", "lost"}
          /\ ItemFailed("other")
          /\ UNCHANGED fresh
    /\ UNCHANGED <<frameVars, diskVars, envVars, authVars>>

\* --------------------------------------------- download_all_pdfs: the loop
\* Line 481: page.wait_for_timeout(1000); when it raises, the handler of line
\* 483 runs.
loop_pause ==
    /\ pc = "pause"
    /\ UNCHANGED login
    /\ \/ /\ pos' = pos + 1
          /\ pc' = LoopTo(pos + 1, results)
       \/ /\ pc' = "recover"
          /\ UNCHANGED pos
    /\ AuthBlanked
    /\ EnvBlanked
    /\ UNCHANGED <<limit, ctxs, nameVars, jobs, enumerated, results, ret, browser, browserOpen, tallyVars, failVars,
                   pageVars, diskVars>>

\* Lines 486-492: the handler's page.goto(results_url); its failure is passed
\* over; `continue`.
loop_recover ==
    /\ pc = "recover"
    /\ UNCHANGED login
    /\ lastNav' = "goto_results"
    /\ rowsStale' = TRUE
    /\ loc' \in {"results", "lost"}
    /\ pos' = pos + 1
    /\ pc' = LoopTo(pos + 1, results)
    /\ UNCHANGED <<limit, ctxs, nameVars, jobs, enumerated, results, ret, browser, browserOpen, tallyVars, failVars,
                   diskVars, envVars, authVars>>

\* Lines 499-509: the session write at the end of the run, then the return.
end_save ==
    /\ pc = "end_save"
    /\ UNCHANGED login
    /\ storage_state
    /\ Return(RunResult(successful_downloads, downloaded_files))
    /\ UNCHANGED <<limit, ctxs, nameVars, jobs, enumerated, results, pos, browser, browserOpen, tallyVars, failVars,
                   pageVars, saved, envVars, authVars>>

\* Lines 514-516: `finally: if browser: await browser.close()`.  When close
\* raises, the exception replaces the pending return value.
browser_close ==
    /\ pc = "close"
    /\ UNCHANGED login
    /\ pc' = "done"
    /\ \/ /\ browserOpen' = FALSE
          /\ ret' = [ret EXCEPT !.kind = "returned"]
       \/ /\ browserOpen' \in {browserOpen, FALSE}
          /\ ret' = [kind |-> "raised", value |-> RunResult(0, <<>>)]
    /\ UNCHANGED <<limit, ctxs, nameVars, jobs, enumerated, results, pos, browser, tallyVars, failVars, pageVars,
                   diskVars, envVars, authVars>>

\* ------------------------------------------------------------- the portal
OnDetail == pc \in AuthPcs \cup {"save_session", "find_btn"}

\* The portal re-renders the detail view while the run is suspended.
portal_renders ==
    /\ OnDetail
    /\ UNCHANGED login
    /\ renders < MaxRenders
    /\ renders' = renders + 1
    /\ EnvRendered
    /\ UNCHANGED <<pc, frameVars, tallyVars, failVars, pageVars, diskVars,
                   pendingLogin, authVars>>

\* The portal answers a credential submission: it accepts (the login form goes
\* and the download button shows on the main page or in a frame) or refuses.
portal_answers ==
    /\ OnDetail
    /\ pendingLogin
    /\ pendingLogin' = FALSE
    /\ \/ /\ dlAt' \in ctxs \ Popups
          /\ dlFree' = (dlAt' = Main)
          /\ formAt' = NoCtx /\ formKind' = "pw"
          /\ login' = IF login.state = "none" /\ pc \in AuthPcs /\ dlAt = NoCtx
                       THEN [login EXCEPT !.at = pos, !.state = "accepted"]
                       ELSE login
       \/ UNCHANGED <<dlAt, dlFree, formAt, formKind, login>>
    /\ UNCHANGED <<pc, frameVars, tallyVars, failVars, pageVars, diskVars,
                   renders, authVars>>

\* ------------------------------------------------- the file-name helpers
\* Everything but the helpers' argument and result.
runVars == <<pc, limit, enumerated, results, pos, successful_downloads,
             downloaded_files, ret, browser, browserOpen, loc, lastNav, prevFailed,
             captureFailIdx, otherFails, fresh, saved, sessionWrites, sessionSaved,
             dlAt, dlFree, formAt, formKind, pendingLogin, renders,
             attempt, fills, fillTarget, lastCheckSaw, authRet, ctxs, login,
             rowsStale, jobs>>

\* A downloader whose helpers get any string of the alphabet.
InitNames ==
    /\ limit = NoLimit
    /\ ctxs = {Main}
    /\ InitRest
    /\ text \in Strings /\ out = <<>> /\ op = "none"

\* self.sanitize_filename(text), as at line 394.
call_sanitize_filename ==
    /\ op = "none"
    /\ out' = sanitize_filename(text)
    /\ op' = "sanitize"
    /\ UNCHANGED <<text, runVars>>

\* self.create_query_slug(text), as at line 425.
call_create_query_slug ==
    /\ op = "none"
    /\ out' = create_query_slug(text)
    /\ op' = "slug"
    /\ UNCHANGED <<text, runVars>>

\* Lines 393-395 with the slug just computed: the file name of result `index`
\* whose download suggests the name `suggested`.
name_download ==
    /\ op = "slug"
    /\ \E index \in 1..MaxRows, suggested \in Strings :
         /\ text' = suggested
         /\ out' = stored_filename(index, out, suggested)
    /\ op' = "final"
    /\ UNCHANGED runVars

\* The result of a helper is handed to a helper again.
reuse_result ==
    /\ op \in {"sanitize", "slug"}
    /\ text' = out
    /\ out' = <<>>
    /\ op' = "none"
    /\ UNCHANGED runVars

NextNames ==
    \/ call_sanitize_filename
    \/ call_create_query_slug
    \/ name_download
    \/ reuse_result

\* ------------------------------------------------------------ the job API
\* Everything but the dict `jobs` and the session file.
jobFrame == <<pc, limit, enumerated, results, pos, successful_downloads, downloaded_files,
              ret, browser, browserOpen, loc, lastNav, prevFailed, captureFailIdx,
              otherFails, fresh, saved, dlAt, dlFree, formAt, formKind, pendingLogin,
              renders, attempt, fills, fillTarget, lastCheckSaw, authRet, ctxs, login,
              rowsStale, nameVars>>

\* The job API with no job submitted yet and no stored session.
InitJobs ==
    /\ limit = NoLimit
    /\ ctxs = {Main}
    /\ InitRest
    /\ NoNames

\* The job ids handed out so far.
JobIds == DOMAIN jobs

\* The task of job j is inside `await downloader.download_all_pdfs(query)`
\* (app.py line 159): its downloader run is under way.
InRun(j) == jobs[j].stage \in {"launching", "browsing", "closing"}

\* The jobs whose downloader run is under way.
RunningJobs == {j \in JobIds : InRun(j)}

\* jobs[job_id]["status"] = "failed" followed by `return` (lines 161-166,
\* 209-220, 244-249, 288-293), with the progress last reported.
JobFailed(j, progress) ==
    jobs' = [jobs EXCEPT ![j].status = "failed", ![j].progress = progress,
                         ![j].stage = "ended"]

\* POST /analyze: the job record is stored and run_analysis_async is handed
\* to the event loop with asyncio.create_task; the handler returns without
\* waiting for it.  The query, the limit, the message and the creation time
\* of the record are read by no step of the job and are left out.
analyze_property ==
    /\ Len(jobs) < MaxJobs
    /\ jobs' = Append(jobs, [status |-> "processing", progress |-> 0,
                             stage |-> "scheduled", session |-> FALSE,
                             count |-> 0, results |-> FALSE])
    /\ UNCHANGED <<jobFrame, sessionWrites, sessionSaved>>

\* run_analysis_async from its start to its first suspension: the progress
\* goes to 10 and 20, the downloader is constructed and download_all_pdfs is
\* awaited.  Nothing is tested or acquired before the run begins.
run_analysis_starts ==
    /\ \E j \in JobIds :
         /\ jobs[j].stage = "scheduled"
         /\ jobs' = [jobs EXCEPT ![j].progress = 20, ![j].stage = "launching"]
    /\ UNCHANGED <<jobFrame, sessionWrites, sessionSaved>>

\* setup_browser of the job's run: the stored session file is looked up and,
\* when it is there, read into the new browser context.  When setup_browser
\* raises, download_all_pdfs returns a count of 0 (lines 511-513).
job_setup_browser ==
    /\ \E j \in JobIds :
         /\ jobs[j].stage = "launching"
         /\ \/ jobs' = [jobs EXCEPT ![j].stage = "browsing",
                                     ![j].session = sessionSaved]
            \/ JobFailed(j, jobs[j].progress)
    /\ UNCHANGED <<jobFrame, sessionWrites, sessionSaved>>

\* The run's write of the session file at its end (lines 499-506).
job_end_save ==
    /\ \E j \in JobIds :
         /\ jobs[j].stage = "browsing"
         /\ jobs' = [jobs EXCEPT ![j].stage = "closing"]
    /\ storage_state
    /\ UNCHANGED jobFrame

\* The counts a downloader run can return.
Counts == 0..MaxRows

\* A variant of lines 159-242 without the test of line 161: the job goes on
\* to the OCR whatever count the run returned.
job_download_returns_untested ==
    /\ \E j \in JobIds :
         /\ jobs[j].stage = "closing"
         /\ \/ JobFailed(j, 0)
            \/ \E c \in Counts :
                 \/ jobs' = [jobs EXCEPT ![j].count = c, ![j].status = "failed",
                                         ![j].progress = 50, ![j].stage = "ended"]
                 \/ jobs' = [jobs EXCEPT ![j].count = c, ![j].progress = 70,
                                         ![j].stage = "ocr"]
    /\ UNCHANGED <<jobFrame, sessionWrites, sessionSaved>>

\* download_all_pdfs is over (app.py lines 159-242): when the call raised,
\* the handler of line 447 fails the job with progress 0; with a count of 0
\* the job fails at line 163; with none of the session's files found it fails
\* at line 218 (progress 50); otherwise the progress goes from 40 to 70 and
\* the OCR is awaited.
job_download_returns ==
    /\ \E j \in JobIds :
         /\ jobs[j].stage = "closing"
         /\ \/ JobFailed(j, 0)
            \/ \E c \in Counts :
                 IF c = 0
                 THEN JobFailed(j, jobs[j].progress)
                 ELSE \/ jobs' = [jobs EXCEPT ![j].count = c, ![j].status = "failed",
                                              ![j].progress = 50, ![j].stage = "ended"]
                      \/ jobs' = [jobs EXCEPT ![j].count = c, ![j].progress = 70,
                                              ![j].stage = "ocr"]
    /\ UNCHANGED <<jobFrame, sessionWrites, sessionSaved>>

\* The OCR is over (app.py lines 242-453): the job fails (no text file, no
\* text, or an exception: progress 0, also when it is the save_jobs of line
\* 444 that raises, after the results were stored) or completes.
job_ocr_returns ==
    /\ \E j \in JobIds :
         /\ jobs[j].stage = "ocr"
         /\ \/ JobFailed(j, jobs[j].progress)
            \/ JobFailed(j, 90)
            \/ JobFailed(j, 0)
            \/ jobs' = [jobs EXCEPT ![j].status = "failed", ![j].progress = 0,
                                    ![j].stage = "ended", ![j].results = TRUE]
            \/ jobs' = [jobs EXCEPT ![j].status = "completed",
                                    ![j].progress = 100, ![j].stage = "ended",
                                    ![j].results = TRUE]
    /\ UNCHANGED <<jobFrame, sessionWrites, sessionSaved>>

NextJobs ==
    \/ analyze_property
    \/ run_analysis_starts
    \/ job_setup_browser
    \/ job_end_save
    \/ job_download_returns
    \/ job_ocr_returns

\* ------------------------------------------------------------------- Spec
Next ==
    \/ setup_browser
    \/ perform_search
    \/ get_search_results
    \/ row_click
    \/ auth_check
    \/ auth_forms
    \/ auth_login
    \/ auth_recheck
    \/ auth_timeout
    \/ save_session
    \/ find_button
    \/ expect_download
    \/ download_click
    \/ download_value
    \/ save_as
    \/ goto_back
    \/ loop_pause
    \/ loop_recover
    \/ end_save
    \/ browser_close
    \/ portal_renders
    \/ portal_answers

\* -------------------------------------------------------------- main (CLI)
\* Line 537, `if successful_downloads > 0`, with the value download_all_pdfs
\* returned: a dict.  Python 3 orders no dict against an int: the comparison
\* raises TypeError, whatever the dict holds.
GreaterThanZero(value) ==
    IF DOMAIN value = {"count", "files"} THEN "TypeError"
    ELSE IF value > 0 THEN "True" ELSE "False"

\* Lines 535-546: the branch main ends in for the outcome r of
\* `await downloader.download_all_pdfs(args.query)`: an exception of the call
\* or of the comparison is caught by `except Exception` (line 545).
main_branch(r) ==
    IF r.kind = "raised" THEN "cli_unexpected"
    ELSE LET test == GreaterThanZero(r.value) IN
         IF test = "TypeError" THEN "cli_unexpected"
         ELSE IF test = "True" THEN "cli_success"
         ELSE "cli_warning"

\* The positions of main after the call: the success log (line 538), the
\* 'no PDFs' warning (line 540), the 'Unexpected error' log (line 546).
CliPcs == {"cli_success", "cli_warning", "cli_unexpected"}

\* main, once download_all_pdfs is over.
main_logs ==
    /\ pc = "done"
    /\ pc' = main_branch(ret)
    /\ UNCHANGED <<frameVars, tallyVars, failVars, pageVars, diskVars, envVars,
                   authVars, login>>

\* A run started from the command line.
NextCli ==
    \/ Next
    \/ main_logs

Spec == Init /\ [][Next]_vars

SpecCli == Init /\ [][NextCli]_vars

SpecAuth == InitAuth /\ [][Next]_vars

SpecRun == InitRun /\ [][Next]_vars

SpecNames == InitNames /\ [][NextNames]_vars

SpecJobs == InitJobs /\ [][NextJobs]_vars

TypeOK ==
    /\ pc \in {"setup", "search", "enumerate", "click", "save_session", "find_btn",
               "capture", "click_btn", "await_dl", "save_as", "goto_back", "pause", "recover", "end_save",
               "close", "done"} \cup AuthPcs
    /\ limit \in Limits
    /\ attempt \in 0..MaxAttempts
    /\ fills \in 0..MaxAttempts
    /\ dlAt \in CtxOrNone /\ formAt \in CtxOrNone
    /\ ret.kind \in {"none", "pending", "returned", "raised"}

\* Lines 386-392: the item is inside `async with page.expect_download(...)`
\* or past it: the capture of the pending download is registered.
CaptureArmed == pc \in {"click_btn", "await_dl", "save_as"}

\* ------------------------------------------------------------------ claims
\* min(limit, n), with n the number of enumerated results; n when no limit is given.
RunBound ==
    IF limit.set THEN Min(limit.val, Len(enumerated)) ELSE Len(enumerated)

\* C1: the dict a run returns has len(files) = count and
\* 0 <= count <= min(limit, n), for every limit (unset, 0, above n).
C1_CountWithinLimit ==
    ret.kind = "returned" =>
        /\ Len(ret.value.files) = ret.value.count
        /\ 0 <= ret.value.count
        /\ ret.value.count <= RunBound

\* C2: no error leaves download_all_pdfs, whichever step fails: the run never
\* ends by raising.
C2_NoErrorEscapes ==
    ret.kind # "raised"

\* C3: when the first check of ensure_authenticated is made with the affordance
\* visible in the main document or a frame it scans, the call returns
\* (True, False) at once, with no _fill_login_form call in the invocation.
C3_AlreadyAuthenticatedShortCircuit ==
    [][(pc = "auth_check" /\ attempt = 0 /\ lastCheckSaw')
         => (authRet' = AuthTuple(TRUE, FALSE) /\ fills' = 0 /\ pc' = "find_btn")]_vars

\* C3 witness: the call returned (True, False) from its first check, made with
\* the affordance in a frame and a login form present as well.
C3_Witness ==
    /\ authRet = AuthTuple(TRUE, FALSE)
    /\ attempt = 0 /\ fills = 0 /\ lastCheckSaw
    /\ dlAt \in Frames /\ formAt # NoCtx

\* C4: a login form that exists only in a nested frame gets the credentials
\* submitted into that frame, never into the primary document.
C4_ContextAffinity ==
    [][(pc = "auth_login" /\ formAt \in Frames /\ fills' = fills + 1)
         => fillTarget' = formAt]_vars

\* C5: every iteration scans the popups as well; a login form rendered only in
\* a popup is detected by the iteration's scan for login forms (and the
\* credentials are then submitted into that popup).
C5_PopupLoginDetected ==
    [][(pc = "auth_forms" /\ pc' \in AuthPcs \ {"auth_forms"} /\ formAt \in Popups)
         => pc' = "auth_login"]_vars

\* C6: when neither the affordance nor a login form appears during the whole
\* invocation (the detail view stays empty), ensure_authenticated returns
\* exactly (False, False); and it never returns (False, True).
C6_NothingSeenGivesFalseFalse ==
    authRet.kind = "returned" =>
        /\ (renders = 0 /\ dlAt = NoCtx /\ formAt = NoCtx)
              => authRet = AuthTuple(FALSE, FALSE)
        /\ authRet # AuthTuple(FALSE, TRUE)

\* C6 witness: the six attempts were used up on a detail view that stayed empty.
C6_Witness ==
    /\ authRet = AuthTuple(FALSE, FALSE)
    /\ attempt = MaxAttempts
    /\ renders = 0 /\ dlAt = NoCtx /\ formAt = NoCtx

\* Steps left to an invocation: four awaits per attempt, in the order
\* check, forms, login, recheck.
AuthRank ==
    CASE pc = "auth_check" -> 3
      [] pc = "auth_forms" -> 2
      [] pc = "auth_login" -> 1
      [] OTHER -> 0
AuthMeasure == (MaxAttempts - attempt) * 4 + AuthRank

C8_JustLoggedInMeansLogin ==
    (authRet.kind = "returned" /\ authRet.jli) =>
        /\ authRet.auth
        /\ fills >= 1
        /\ lastCheckSaw

\* C8 witness: a call returned (True, True).
C8_Witness ==
    /\ authRet = AuthTuple(TRUE, TRUE)
    /\ fills >= 1 /\ lastCheckSaw

\* C9: after an item failed, the results URL is loaded before the next result
\* row is activated: it is the last page operation when that row is clicked.
C9_RecoveryAfterFailure ==
    (pc = "click" /\ prevFailed) => lastNav = "goto_results"

\* The list s without the entries equal to k.
Without(s, k) == SelectSeq(s, LAMBDA x : x # k)

\* C10: in a run where exactly one item raised during the download capture and
\* no other item failed from the results page, the run returns the names of
\* all the other items, in order.
C10_ItemIndependence ==
    (pc = "done" /\ ret.kind = "returned" /\ captureFailIdx # 0 /\ ~otherFails)
        => ret.value.files = Without(results, captureFailIdx)

\* C11: in a run whose first item needed a login that succeeded (the portal
\* accepted the credentials during the item's ensure_authenticated call, which
\* reported authenticated) and whose later items made no credential
\* submission, the session state is written exactly twice: once after item
\* 1's authentication and once at the end of the run.
C11_LoginOnceSessionTwice ==
    (pc = "done" /\ ret.kind = "returned"
        /\ login.at = 1 /\ login.state = "authed" /\ ~login.relogin)
      => sessionWrites = 2

\* C12: every run that launched its browser (on a failed search, on zero
\* results, or after the loop over the items) attempts a write of the session
\* state before it returns.
C12_SessionWrittenAtEnd ==
    (pc \in {"close", "done"} /\ browser) => sessionWrites >= 1

\* C13: when ensure_authenticated returns just_logged_in = True the next step
\* of the item is the session write; the item leaves that step only by having
\* attempted the write, with the page where it was, towards the lookup of the
\* download button; and the lookup of an item that logged in is entered from
\* nowhere else.
C13_SessionWriteBeforeDownload ==
    [][/\ (authRet' # authRet /\ authRet'.kind = "returned" /\ authRet'.jli)
            => pc' = "save_session"
       /\ (pc = "save_session" /\ pc' # "save_session")
            => /\ sessionWrites' = sessionWrites + 1
               /\ pc' = "find_btn"
               /\ loc' = loc /\ lastNav' = lastNav
       /\ (pc # "find_btn" /\ pc' = "find_btn" /\ authRet'.jli)
            => pc = "save_session"]_vars

\* C13 witness: the download of an item that just logged in is about to be
\* armed, and the session write was attempted.
C13_Witness ==
    pc = "capture" /\ authRet.jli /\ sessionWrites = 1

\* C14: when ensure_authenticated reports not authenticated the item yields
\* None at once: nothing is counted, listed or saved, the page is not touched,
\* and the loop goes on to the next item (never back into this one).
C14_NotAuthenticatedAbandons ==
    [][/\ (pc \in AuthPcs /\ authRet'.kind = "returned" /\ ~authRet'.auth)
            => /\ pc' = "pause" /\ prevFailed'
               /\ UNCHANGED <<successful_downloads, downloaded_files, saved,
                              lastNav, loc, pos>>
       /\ (pc \in {"pause", "recover"} /\ pc' \notin {"pause", "recover"})
            => /\ pos' = pos + 1
               /\ pc' = LoopTo(pos + 1, results)
               /\ UNCHANGED <<successful_downloads, downloaded_files, saved>>]_vars

\* C14 witness: the first of two items was abandoned on (False, False) with
\* nothing saved.
C14_Witness ==
    /\ pc = "pause" /\ authRet = AuthTuple(FALSE, FALSE)
    /\ pos < Len(results) /\ saved = {} /\ successful_downloads = 0

\* C15: a session write that fails (nothing was written) changes nothing else:
\* after a login the item goes on to the download button with the tallies and
\* the loop untouched, and at the end of the run the tallies are returned.
C15_SessionWriteFailureNonFatal ==
    [][/\ (pc = "save_session" /\ sessionWrites' # sessionWrites /\ ~sessionSaved')
            => /\ pc' = "find_btn"
               /\ UNCHANGED <<successful_downloads, downloaded_files, pos,
                              results, prevFailed>>
       /\ (pc = "end_save" /\ sessionWrites' # sessionWrites /\ ~sessionSaved')
            => /\ pc' = "close"
               /\ ret' = [kind |-> "pending",
                          value |-> RunResult(successful_downloads, downloaded_files)]]_vars

\* C15 witness: an item whose session write after the login failed was
\* downloaded and counted.
C15_Witness ==
    /\ pc = "pause" /\ authRet.jli /\ sessionWrites = 1 /\ ~sessionSaved
    /\ successful_downloads = 1

\* C16: when the search fails or the enumeration yields no row the next step
\* is the return of {'count': 0, 'files': []}; no row was or will be
\* activated, no detail view loaded, ensure_authenticated not invoked, and the
\* value the run returns is that dict.
C16_EarlyExitOnNoResults ==
    /\ [][((pc = "search" /\ loc' = "lost")
             \/ (pc = "enumerate" /\ pc' # "enumerate" /\ enumerated' = <<>>))
            => (pc' = "close"
                 /\ ret' = [kind |-> "pending", value |-> RunResult(0, <<>>)])]_vars
    /\ [](enumerated = <<>>
            => /\ pc \in {"setup", "search", "enumerate", "close", "done"}
               /\ lastNav \in {"none", "goto_search"}
               /\ loc # "detail"
               /\ authRet = NoAuthRet /\ attempt = 0
               /\ (ret.kind = "returned" => ret.value = RunResult(0, <<>>)))

\* C16 witness: a run whose search succeeded and found no row returned the
\* empty result.
C16_Witness ==
    /\ pc = "done" /\ ret = [kind |-> "returned", value |-> RunResult(0, <<>>)]
    /\ browser /\ loc = "results" /\ enumerated = <<>>

\* C17: in a run without a limit in which every enumerated result was
\* downloaded, the i-th file name carries the zero-padded prefix of i
\* (01, 02, ...), also when rows were filtered out of the enumeration.
C17_OrdinalsDense ==
    (pc = "done" /\ ret.kind = "returned" /\ ~limit.set
        /\ ret.value.count = Len(enumerated))
      => \A i \in 1..Len(ret.value.files) :
            OrdinalPrefix(ret.value.files[i]) = OrdinalPrefix(i)

\* The number a digit sequence writes.
RECURSIVE PrefixValue(_)
PrefixValue(d) ==
    IF d = <<>> THEN 0 ELSE 10 * PrefixValue(SubSeq(d, 1, Len(d) - 1)) + d[Len(d)]

\* C18: in every returned files list the ordinal prefixes are strictly
\* increasing from one entry to the next.
C18_OrdinalsIncreasing ==
    ret.kind = "returned" =>
        \A i \in 1..(Len(ret.value.files) - 1) :
            PrefixValue(OrdinalPrefix(ret.value.files[i]))
              < PrefixValue(OrdinalPrefix(ret.value.files[i + 1]))

\* C18 witness: a run returned two file names.
C18_Witness ==
    ret.kind = "returned" /\ Len(ret.value.files) = 2

\* The set of entries of a list.
Range(s) == {s[i] : i \in 1..Len(s)}

\* C19: between items the listed names are exactly the saved artifacts, each
\* once, and count is their number (an item is between its save and its
\* tally only while it navigates back).
C19_TallyMatchesSaved ==
    pc # "goto_back" =>
        /\ Range(downloaded_files) = saved
        /\ Len(downloaded_files) = Cardinality(saved)
        /\ successful_downloads = Cardinality(saved)

\* C20: a result of sanitize_filename is a fixed point of sanitize_filename,
\* and a result of create_query_slug is a fixed point of create_query_slug.
C20_SanitizeIdempotent ==
    /\ op = "sanitize" => sanitize_filename(out) = out
    /\ op = "slug" => create_query_slug(out) = out

\* The characters < > : " / \ | ? *
IllegalChars == {"<", ">", ":", "\"", "/", "\\", "|", "?", "*"}
\* The class [A-Za-z0-9_] over the characters of the model.
SlugClass ==
    {"a", "d", "o", "c", "u", "m", "e", "n", "t", "p", "f", "_"} \cup Range(DigitChars)

\* f matches ^\d{2,}_[A-Za-z0-9_]{0,50}__.+ : digits f[1..p], '_', a slug
\* f[p+2..q], '__', and at least one more character.
MatchesNamePattern(f) ==
    \E p \in 2..Len(f) : \E q \in (p + 1)..(Len(f) - 3) :
        /\ \A i \in 1..p : f[i] \in Range(DigitChars)
        /\ f[p + 1] = "_"
        /\ q - (p + 1) <= 50
        /\ \A i \in (p + 2)..q : f[i] \in SlugClass
        /\ f[q + 1] = "_" /\ f[q + 2] = "_"

\* C21: every stored file name, for every query and every suggested name, is
\* at least two digits, '_', a slug of at most 50 letters, digits and
\* underscores, '__' and a non-empty name, and holds none of < > : " / \ | ? *.
C21_FilenameShape ==
    op = "final" =>
        /\ MatchesNamePattern(out)
        /\ \A i \in 1..Len(out) : out[i] \notin IllegalChars

\* No two neighbouring characters of s are whitespace.
NoWhitespaceRun(s) ==
    \A i \in 1..(Len(s) - 1) : ~(s[i] \in Whitespace /\ s[i + 1] \in Whitespace)

\* C22: sanitize_filename returns at most 200 characters, none of them
\* illegal, create_query_slug at most 50, and neither result keeps a run of
\* whitespace of the input.
C22_SanitizeBounds ==
    /\ op = "sanitize" =>
          /\ Len(out) <= 200
          /\ \A i \in 1..Len(out) : out[i] \notin IllegalChars
          /\ NoWhitespaceRun(out)
    /\ op = "slug" => (Len(out) <= 50 /\ NoWhitespaceRun(out))

\* A slug and a suggested name shared by all the downloads of a run.
SameSlug == <<"a">>
SameSuggested == <<"a", ".", "a">>

\* C23: within a run the stored names of any two results, and any two
\* entries of files, differ even when their downloads suggest the same name.
C23_FilenamesDistinct ==
    /\ \A i, j \in 1..Len(results) :
          i < j => stored_filename(results[i], SameSlug, SameSuggested)
                     # stored_filename(results[j], SameSlug, SameSuggested)
    /\ \A i, j \in 1..Len(downloaded_files) :
          i < j => stored_filename(downloaded_files[i], SameSlug, SameSuggested)
                     # stored_filename(downloaded_files[j], SameSlug, SameSuggested)

\* C23 witness: two downloads of one run were stored and listed.
C23_Witness ==
    Len(downloaded_files) = 2 /\ Cardinality(saved) = 2

\* C25: for every item that reaches the download step the capture of the
\* pending download is registered before the download button is clicked (the
\* click is made only with the capture registered, by the step that follows
\* the registration), the download is awaited only after the click, and the
\* file is saved only after the download was awaited.
C25_CaptureBeforeClick ==
    [][/\ (lastNav' = "download_click" /\ lastNav # "download_click")
            => (pc = "click_btn" /\ CaptureArmed)
       /\ (pc' = "click_btn" /\ pc # "click_btn")
            => (pc = "capture" /\ lastNav' = lastNav /\ lastNav # "download_click")
       /\ (pc' = "await_dl" /\ pc # "await_dl")
            => (pc = "click_btn" /\ lastNav' = "download_click")
       /\ (pc' = "save_as" /\ pc # "save_as")
            => (pc = "await_dl" /\ lastNav = "download_click")
       /\ (saved' # saved)
            => (pc = "save_as" /\ lastNav = "download_click")]_vars

\* C25 witness: an item's file was saved after the click on its download
\* button.
C25_Witness ==
    pc = "goto_back" /\ results[pos] \in saved /\ lastNav = "download_click"

\* C26: after every saved item the next page operation is the load of the
\* stored results URL (the step that follows the save, and no other kind of
\* navigation), and when the next result row is activated that load is the
\* last page operation made.
C26_FreshLoadAfterSave ==
    /\ []((pc = "click" /\ pos > 1 /\ results[pos - 1] \in saved)
            => lastNav = "goto_results")
    /\ [][/\ (saved' # saved) => pc' = "goto_back"
          /\ (pc = "goto_back" /\ pc' # "goto_back")
               => (lastNav' = "goto_results" /\ results[pos] \in saved)]_vars

\* C26 witness: the second row is about to be activated after the first item
\* was saved and counted.
C26_Witness ==
    /\ pc = "click" /\ pos = 2 /\ results[1] \in saved
    /\ downloaded_files = <<results[1]>>

\* C27: whenever a result row is activated the page shows the search results
\* page, whatever the outcome of the previous items.
C27_RowActivatedOnResultsPage ==
    pc = "click" => loc = "results"

C29_ActivatedRowsWithinLimit ==
    /\ pc = "click" => (pos <= RunBound /\ results[pos] = enumerated[pos])
    /\ pc = "end_save" /\ Len(enumerated) > 0 => pos = RunBound + 1

\* C30: when the activation of a row does not land on a detail view the item
\* is abandoned at once: ensure_authenticated is not called, nothing is
\* written, counted, listed or saved, no download is attempted, and the loop
\* goes on to the next item (never back into this one).
C30_NoDetailViewAbandons ==
    [][/\ (pc = "click" /\ loc' # "detail")
            => /\ pc' = "pause" /\ prevFailed'
               /\ authRet' = NoAuthRet /\ attempt' = 0 /\ fills' = 0
               /\ lastNav' = "row_click"
               /\ UNCHANGED <<successful_downloads, downloaded_files, saved,
                              sessionWrites, sessionSaved, pos>>
       /\ (pc \in {"pause", "recover"} /\ pc' \notin {"pause", "recover"})
            => /\ pos' = pos + 1
               /\ pc' = LoopTo(pos + 1, results)
               /\ lastNav' \in {lastNav, "goto_results"}
               /\ UNCHANGED <<successful_downloads, downloaded_files, saved,
                              sessionWrites>>]_vars

\* C30 witness: the activation of the first of two rows left the results page
\* for a page that is no detail view, and the item was abandoned.
C30_Witness ==
    /\ pc = "pause" /\ loc = "lost" /\ lastNav = "row_click"
    /\ authRet = NoAuthRet /\ prevFailed /\ pos = 1 /\ Len(results) = 2
    /\ saved = {} /\ sessionWrites = 0

\* C24: the job API runs the downloader of one job at a time: the downloader
\* runs of two jobs never overlap, so at most one run is reading or writing
\* the session file at any moment.
C24_JobRunsSerialized ==
    Cardinality(RunningJobs) <= 1

\* C31: an ensure_authenticated call that submitted credentials at some
\* iteration, whose submission the portal accepted during the call, and that
\* returns authenticated = True returns just_logged_in = True, also when the
\* affordance shows only at a later iteration than the one that submitted.
C31_LoginPerformedIsReported ==
    (/\ authRet.kind = "returned" /\ authRet.auth
     /\ fills >= 1 /\ login.at = pos /\ login.state = "authed")
        => authRet.jli

\* C32: after download_all_pdfs returned normally, main reaches the success
\* log when at least one file was downloaded and the 'no PDFs' warning when
\* none was, never the 'Unexpected error' branch.
C32_CliReportsResult ==
    (pc \in CliPcs /\ ret.kind = "returned")
        => pc = IF ret.value.count > 0 THEN "cli_success" ELSE "cli_warning"

\* C33: every artifact saved into the download directory during a run is
\* listed in the files of the result the run returns.
C33_SavedFilesAreListed ==
    (pc = "done" /\ ret.kind = "returned") => saved \subseteq Range(ret.value.files)

\* C34: ensure_authenticated returns authenticated = True only from a check
\* of the affordance made in this call that saw it visible (it is shown in
\* the main page or a frame), and nothing is checked between that observation
\* and the return.
C34_AuthenticatedMeansSeen ==
    [][(authRet' # authRet /\ authRet'.kind = "returned" /\ authRet'.auth)
          => /\ pc \in {"auth_check", "auth_recheck"}
             /\ lastCheckSaw'
             /\ dlAt \in {Main} \cup Frames /\ dlAt' = dlAt]_vars

\* C34 witness: a call returned authenticated from the first check of a later
\* iteration, which saw the affordance in a frame.
C34_Witness ==
    /\ authRet = AuthTuple(TRUE, FALSE) /\ lastCheckSaw
    /\ attempt >= 1 /\ dlAt \in Frames

\* C35: a browser launched for a run is closed when download_all_pdfs has
\* returned, on every path (search failure, zero results, normal completion,
\* a failure of the context or page creation after the launch).
C35_BrowserClosedOnReturn ==
    (pc = "done" /\ ret.kind = "returned") => ~browserOpen

\* C36: every job starts in 'processing'; a job whose task is over is
\* 'completed' or 'failed' and its status never changes again; the progress
\* of a job never decreases while it is 'processing'; and a job is
\* 'completed' only if its downloader run returned a count above 0, with
\* progress 100 and results set.
C36_JobLifecycle ==
    /\ [](\A j \in JobIds :
            /\ jobs[j].status \in {"processing", "completed", "failed"}
            /\ jobs[j].stage = "ended" <=> jobs[j].status \in {"completed", "failed"}
            /\ jobs[j].status = "completed"
                  => (jobs[j].count > 0 /\ jobs[j].progress = 100 /\ jobs[j].results))
    /\ [][/\ \A j \in DOMAIN jobs' :
               IF j \in JobIds
               THEN /\ jobs[j].status \in {"completed", "failed"}
                         => jobs'[j].status = jobs[j].status
                    /\ jobs'[j].status = "processing"
                         => jobs'[j].progress >= jobs[j].progress
               ELSE jobs'[j].status = "processing" /\ jobs'[j].progress = 0
          /\ JobIds \subseteq DOMAIN jobs']_vars

\* C36 witness: one job completed and another failed after its run returned
\* files.
C36_Witness ==
    \E j, k \in JobIds :
        /\ jobs[j].status = "completed" /\ jobs[j].progress = 100
        /\ jobs[k].status = "failed" /\ jobs[k].count > 0
=============================================================================
